---- MODULE Spec2Model ----
(***************************************************************************)
(* A model of billboard.py: the night test, the weighted random selection  *)
(* with its no-repeat window, the concurrent dispatch of six image parts   *)
(* to the targets and the main loop that ties them together.               *)
(*                                                                         *)
(* Python lists are modelled as sequences, so positions are 1-based here   *)
(* where the code's are 0-based: position p of the model is index p-1 of   *)
(* the code.                                                               *)
(***************************************************************************)
EXTENDS Integers, Sequences, FiniteSets, TLC

\* ---------------------------------------------------------------- bounds
MaxHour == 2
MaxMinute == 1
MaxSecond == 1
MaxSources == 3
MaxWindow == 2
MaxTargets == 7
MaxDocKeys == 6
MaxSliceWidth == 8
MaxSliceHeight == 14
MaxFrameWidth == 2
MaxFrameHeight == 2
MaxTagLen == 5

\* ------------------------------------------------------ program constants
NumParts == 6
NightSleep == 60
DefaultDisplayTime == 10
DefaultWidth == 256
DefaultHeight == 384

VARIABLES
    active_start,       \* config "active_start", a time-of-day string
    active_end,         \* config "active_end", a time-of-day string
    sources,            \* config "sources", the list the loop reads and writes
    loaded_sources,     \* the source list as load_configuration returned it
    targets,            \* config "targets"
    use_random,         \* config "random"
    no_repeat_window,   \* config "no_repeat_window"
    default_width,      \* config "width"
    default_height,     \* config "height"
    remote,             \* what the remote configuration document holds now
    local_doc,          \* load_configuration: the parsed config.yaml
    response,           \* load_configuration: what the remote URL answers
    merged,             \* load_configuration: the configuration it returns
    loader_pc,          \* load_configuration: "start", "returned" or "raised"
    boxes,              \* split_image: the crop boxes of the six parts
    send_img,           \* send_image: the image it is given
    command,            \* send_image: the command it is given
    wire,               \* send_image: what it has done on its socket, in order
    send_pc,            \* send_image: "start", "returned" or "raised"
    recent_queue,       \* deque(maxlen=no_repeat_window) of selected_index
    clock,              \* the value datetime.now().time() last returned
    night,              \* the value is_nighttime last returned
    pc,                 \* the position of the main thread
    exc,                \* the exception propagating in the main thread
    available_sources,  \* positions of the candidates of the last draw
    weights,            \* the weights of the last draw, one per candidate
    selected,           \* position of the entry random.choices returned
    drawn,              \* positions drawn since the last exhaustion reset
    entries,            \* positions of the entries the for loop goes through
    index,              \* the for loop's position in entries
    parts,              \* the six image parts being dispatched
    label,              \* "Night" or "Image": which dispatch this is
    futures,            \* the send tasks submitted to the executor
    sleep_for,          \* the argument of the time.sleep in progress
    cycle               \* what the current pass of the while loop has done

vars == <<active_start, active_end, sources, loaded_sources, targets,
          use_random, no_repeat_window, default_width, default_height, remote,
          local_doc, response, merged, loader_pc, boxes, send_img, command,
          wire, send_pc, recent_queue, clock, night, pc, exc,
          available_sources, weights, selected, drawn, entries, index, parts,
          label, futures, sleep_for, cycle>>

\* The variables of the functions that are followed on their own.
loader_vars == <<local_doc, response, merged, loader_pc>>

slicer_vars == <<boxes>>

sender_vars == <<send_img, command, wire, send_pc>>

\* What no step of the main loop writes.
config_vars == <<active_start, active_end, loaded_sources, targets,
                 use_random, no_repeat_window, default_width, default_height,
                 remote, loader_vars, slicer_vars, sender_vars>>

select_vars == <<available_sources, weights, selected, drawn>>

\* What the main loop and its send tasks write.
loop_vars == <<sources, recent_queue, clock, night, pc, exc, select_vars,
               entries, index, parts, label, futures, sleep_for, cycle>>

\* ------------------------------------------------------------- helpers
Min2(a, b) == IF a < b THEN a ELSE b

Max2(a, b) == IF a > b THEN a ELSE b

Range(s) == {s[i] : i \in DOMAIN s}

RECURSIVE SeqsUpTo(_, _)
SeqsUpTo(S, n) ==
    IF n = 0 THEN {<<>>}
    ELSE LET shorter == SeqsUpTo(S, n - 1)
         IN  shorter \cup {Append(s, x) : s \in {t \in shorter : Len(t) = n - 1}, x \in S}

\* ------------------------------------------------------------ night test
\* A time-of-day string "HH:MM" is the pair of its two fields.
TimeStrings == (0..MaxHour) \X (0..MaxMinute)

\* dtime.fromisoformat: the fields of the string, seconds zero.
fromisoformat(str) == [hour |-> str[1], minute |-> str[2], second |-> 0]

\* The values datetime.now().time() can return.
ClockTimes == [hour : 0..MaxHour, minute : 0..MaxMinute, second : 0..MaxSecond]

\* datetime.time orders by (hour, minute, second), field by field.
TimeLess(a, b) ==
    \/ a.hour < b.hour
    \/ a.hour = b.hour /\ a.minute < b.minute
    \/ a.hour = b.hour /\ a.minute = b.minute /\ a.second < b.second

TimeLeq(a, b) == ~TimeLess(b, a)

is_nighttime_no_wrap(start_str, end_str, now) ==
    LET start == fromisoformat(start_str)
        end   == fromisoformat(end_str)
    IN  ~(TimeLeq(start, now) /\ TimeLess(now, end))

is_nighttime_wrong_end(start_str, end_str, now) ==
    LET start == fromisoformat(start_str)
        end   == fromisoformat(end_str)
    IN  IF TimeLess(start, end)
        THEN ~(TimeLeq(start, now) /\ TimeLeq(now, end))
        ELSE ~(TimeLeq(start, now) \/ TimeLeq(now, end))

is_nighttime(start_str, end_str, now) ==
    LET start == fromisoformat(start_str)
        end   == fromisoformat(end_str)
    IN  IF TimeLess(start, end)
        THEN ~(TimeLeq(start, now) /\ TimeLess(now, end))
        ELSE ~(TimeLeq(start, now) \/ TimeLess(now, end))

\* --------------------------------------------------------- source entries
\* A source entry is a bare string or a dict; a dict may carry "shares" and
\* "display_time". An absent key is has_shares = FALSE with shares = 0 (and
\* the same for display_time), so that two entries are equal here exactly
\* when Python's == finds them equal.
Paths == {"a", "b"}

DeclaredShares == {0, 4}

DeclaredTimes == {3}

StrEntry(path) ==
    [kind |-> "str", path |-> path, has_shares |-> FALSE, shares |-> 0,
     has_display_time |-> FALSE, display_time |-> 0]

DictEntry(path) ==
    [kind |-> "dict", path |-> path, has_shares |-> FALSE, shares |-> 0,
     has_display_time |-> FALSE, display_time |-> 0]

DictEntryShares(path, n) ==
    [kind |-> "dict", path |-> path, has_shares |-> TRUE, shares |-> n,
     has_display_time |-> FALSE, display_time |-> 0]

DictEntryTime(path, t) ==
    [kind |-> "dict", path |-> path, has_shares |-> FALSE, shares |-> 0,
     has_display_time |-> TRUE, display_time |-> t]

\* The entries a configuration is built from: the bare strings of both paths,
\* and the dicts of one path, without shares and with each declared value.
EntryPool ==
    {StrEntry(p) : p \in Paths} \cup {DictEntry("a")}
        \cup {DictEntryShares("a", n) : n \in DeclaredShares}

\* The entries of the configurations that vary the display time.
TimedEntryPool ==
    {StrEntry("a"), DictEntry("a")} \cup {DictEntryTime("a", t) : t \in DeclaredTimes}

\* s.get('shares', None) is not None, for a dict s
DeclaresShares(s) == s.kind = "dict" /\ s.has_shares

RECURSIVE SumDefined(_)
SumDefined(srcs) ==
    IF srcs = <<>> THEN 0
    ELSE (IF DeclaresShares(Head(srcs)) THEN Head(srcs).shares ELSE 0)
             + SumDefined(Tail(srcs))

DefaultSharesNoFloor(srcs) ==
    IF \E i \in DOMAIN srcs : DeclaresShares(srcs[i])
    THEN SumDefined(srcs) \div Len(srcs)
    ELSE 1

\* The value written into a dict without 'shares'.
DefaultShares(srcs) ==
    IF \E i \in DOMAIN srcs : DeclaresShares(srcs[i])
    THEN Max2(SumDefined(srcs) \div Len(srcs), 1)
    ELSE 1

\* The source list after the two defaulting loops: only dicts are written.
AssignShares(srcs) ==
    [i \in DOMAIN srcs |->
        IF srcs[i].kind = "dict" /\ ~srcs[i].has_shares
        THEN [srcs[i] EXCEPT !.has_shares = TRUE, !.shares = DefaultShares(srcs)]
        ELSE srcs[i]]

AvailableIgnoringQueue(srcs, queue) == [i \in DOMAIN srcs |-> i]

\* [s for i, s in enumerate(sources) if i not in recent_queue], as positions
Available(srcs, queue) ==
    SelectSeq([i \in DOMAIN srcs |-> i], LAMBDA i : i \notin Range(queue))

\* s.get('shares', 1) if isinstance(s, dict) else 1
WeightOf(s) == IF s.kind = "dict" /\ s.has_shares THEN s.shares ELSE 1

Weights(srcs, avail) == [j \in DOMAIN avail |-> WeightOf(srcs[avail[j]])]

RECURSIVE SumSeq(_)
SumSeq(w) == IF w = <<>> THEN 0 ELSE Head(w) + SumSeq(Tail(w))

\* sources.index(selected): the first position holding an entry == selected
IndexOf(srcs, entry) ==
    CHOOSE i \in DOMAIN srcs :
        /\ srcs[i] = entry
        /\ \A j \in DOMAIN srcs : srcs[j] = entry => i <= j

\* deque.append under maxlen
DequeAppend(queue, x, maxlen) ==
    IF maxlen = 0 THEN <<>>
    ELSE IF Len(queue) >= maxlen THEN Append(Tail(queue), x)
    ELSE Append(queue, x)

\* ------------------------------------------------------------ image parts
BlackPartFullHeight ==
    [image |-> "black", band |-> 0,
     width |-> default_width, height |-> default_height]

\* create_black_part: one black image, used for all six parts.
BlackPart ==
    [image |-> "black", band |-> 0,
     width |-> default_width, height |-> default_height \div NumParts]

NightParts == [i \in 1..NumParts |-> BlackPart]

\* split_image: band i of the image at path, top to bottom.
SplitImage(path) ==
    [i \in 1..NumParts |->
        [image |-> path, band |-> i - 1,
         width |-> default_width, height |-> default_height \div NumParts]]

NoParts == <<>>

\* ---------------------------------------------------------------- dispatch
TargetAddr(i) == <<"ip", i>>

TargetList(n) == [i \in 1..n |-> TargetAddr(i)]

\* The futures the list comprehension has submitted when it ends: one per
\* target while parts[i] exists.
SubmitAll(ps, tgts) ==
    [i \in 1..Min2(Len(tgts), Len(ps)) |->
        [part |-> ps[i], host |-> tgts[i], label |-> i, state |-> "running"]]

\* parts[i] with i past the last part raises IndexError.
SubmitRaises(ps, tgts) == Len(tgts) > Len(ps)

AllDoneNoWait(fs) == TRUE

\* for future in futures: future.result(), and the executor's shutdown(wait)
AllDone(fs) == \A i \in DOMAIN fs : fs[i].state # "running"

\* ------------------------------------------------------- load_configuration
\* A parsed YAML mapping is a function from its keys; the value config.yaml
\* gives key k is <<"local", k>>, the value the remote document gives it is
\* <<"remote", k>>.
EmptyDoc == [k \in {} |-> k]

LocalValue(k) == <<"local", k>>

RemoteValue(k) == <<"remote", k>>

\* The keys documents are built from: the URL key, keys the loop reads, one
\* it does not know, then the rest of the keys the merge names.
KeyOrder ==
    <<"remote_configuration_url", "system_logo", "active_start", "crop_origin",
      "targets", "brightness", "sources", "random", "active_end",
      "no_repeat_window", "width", "height", "crop">>

DocKeys == {KeyOrder[i] : i \in 1..Min2(MaxDocKeys, Len(KeyOrder))}

WhitelistWithTargets ==
    <<"active_start", "active_end", "sources", "random", "no_repeat_window",
      "width", "height", "crop", "crop_origin", "targets">>

\* for key in [...]: the keys a remote document may overwrite
Whitelist ==
    <<"active_start", "active_end", "sources", "random", "no_repeat_window",
      "width", "height", "crop", "crop_origin">>

LocalDocs == {[k \in K |-> LocalValue(k)] : K \in SUBSET DocKeys}

\* What yaml.safe_load makes of the response text: a mapping, a list or a
\* string (keys: the keys that are items of the list, or substrings of the
\* string), nothing (an empty document), a number, or a YAMLError.
Bodies ==
    [kind : {"mapping", "list", "string"}, keys : SUBSET DocKeys]
        \cup [kind : {"none", "int", "unparseable"}, keys : {{}}]

\* requests.get fails, or answers with an error status or with 200.
Responses ==
    [status : {"unreachable"}, body : {[kind |-> "none", keys |-> {}]}]
        \cup [status : {"http_error", "ok"}, body : Bodies]

StatusNeverRaises(status) == FALSE

\* response.raise_for_status()
StatusRaises(status) == status = "http_error"

\* config[key] = value
Assign(cfg, key, value) ==
    [k \in DOMAIN cfg \cup {key} |-> IF k = key THEN value ELSE cfg[k]]

\* The for loop over the keys, from the keys still to do: the configuration
\* when it ends, and the exception that ended it.
RECURSIVE MergeKeys(_, _, _)
MergeKeys(cfg, body, keys) ==
    IF keys = <<>> THEN [config |-> cfg, error |-> "none"]
    ELSE IF body.kind \in {"none", "int"}
    THEN \* key in remote_config: not iterable
         [config |-> cfg, error |-> "TypeError"]
    ELSE IF Head(keys) \notin body.keys
    THEN MergeKeys(cfg, body, Tail(keys))
    ELSE IF body.kind = "mapping"
    THEN MergeKeys(Assign(cfg, Head(keys), RemoteValue(Head(keys))), body, Tail(keys))
    ELSE \* remote_config[key] on a list or a string
         [config |-> cfg, error |-> "TypeError"]

\* The try block: the configuration after it, and the exception it raised.
TryRemote(cfg, resp) ==
    IF resp.status = "unreachable" THEN [config |-> cfg, error |-> "ConnectionError"]
    ELSE IF StatusRaises(resp.status) THEN [config |-> cfg, error |-> "HTTPError"]
    ELSE IF resp.body.kind = "unparseable" THEN [config |-> cfg, error |-> "YAMLError"]
    ELSE MergeKeys(cfg, resp.body, Whitelist)

\* except Exception as e: every exception of the try block is caught
Caught(error) == TRUE

\* load_configuration: the configuration it returns, and whether an
\* exception leaves it.
load_configuration(local, resp) ==
    IF "remote_configuration_url" \notin DOMAIN local
    THEN [config |-> local, escaped |-> FALSE]
    ELSE LET tried == TryRemote(local, resp)
         IN  [config |-> tried.config,
              escaped |-> tried.error # "none" /\ ~Caught(tried.error)]

LoaderIdle ==
    /\ local_doc = EmptyDoc
    /\ response = [status |-> "unreachable", body |-> [kind |-> "none", keys |-> {}]]
    /\ merged = EmptyDoc
    /\ loader_pc = "returned"

SlicerIdle == boxes = <<>>

SenderIdle ==
    /\ send_img = [width |-> 0, height |-> 0, pixel |-> <<0, 0, 0>>]
    /\ command = <<>>
    /\ wire = <<>>
    /\ send_pc = "returned"

\* ------------------------------------------------------------ initial state
\* config.get("active_start", "08:00") and config.get("active_end", "23:00")
DefaultStart == <<8, 0>>

DefaultEnd == <<23, 0>>

\* The times of day at which the main loop looks at the clock.
WallClock ==
    {[hour |-> 7, minute |-> 59, second |-> 59], fromisoformat(DefaultStart),
     [hour |-> 22, minute |-> 59, second |-> 59], fromisoformat(DefaultEnd)}

Midnight == [hour |-> 0, minute |-> 0, second |-> 0]

NewCycle == [attempted |-> 0, loaded |-> 0, dispatches |-> 0, sleeps |-> 0]

\* Configurations that vary the source list, the random flag and the window.
SelectionConfigs ==
    [sources : SeqsUpTo(EntryPool, MaxSources), targets : {TargetList(1)},
     random : BOOLEAN, no_repeat_window : 0..MaxWindow,
     size : {<<DefaultWidth, DefaultHeight>>}]

\* The widths and heights of the configurations that vary them: the defaults
\* and a height that is no multiple of six.
Dimensions == {<<DefaultWidth, DefaultHeight>>, <<64, 100>>}

\* Configurations that vary the number of targets and the dimensions.
DispatchConfigs ==
    [sources : SeqsUpTo({StrEntry("a")}, 1), targets : {TargetList(n) : n \in 0..MaxTargets},
     random : BOOLEAN, no_repeat_window : {0}, size : Dimensions]

\* Configurations that vary the display times of the entries.
TimedConfigs ==
    [sources : SeqsUpTo(TimedEntryPool, MaxSources), targets : {TargetList(1)},
     random : BOOLEAN, no_repeat_window : {0},
     size : {<<DefaultWidth, DefaultHeight>>}]

\* main() up to the while loop, for a configuration config.
Started(config) ==
    /\ sources = config.sources
    /\ loaded_sources = config.sources
    /\ targets = config.targets
    /\ use_random = config.random
    /\ no_repeat_window = config.no_repeat_window
    /\ default_width = config.size[1]
    /\ default_height = config.size[2]
    /\ remote = [random |-> config.random, no_repeat_window |-> config.no_repeat_window]
    /\ recent_queue = <<>>
    /\ clock = Midnight
    /\ night = FALSE
    /\ pc = "check_night"
    /\ exc = "none"
    /\ available_sources = <<>>
    /\ weights = <<>>
    /\ selected = 0
    /\ drawn = <<>>
    /\ entries = <<>>
    /\ index = 0
    /\ parts = NoParts
    /\ label = "none"
    /\ futures = <<>>
    /\ sleep_for = 0
    /\ cycle = NewCycle

Init ==
    /\ active_start = DefaultStart
    /\ active_end = DefaultEnd
    /\ \E config \in SelectionConfigs \cup DispatchConfigs \cup TimedConfigs :
           Started(config)
    /\ LoaderIdle
    /\ SlicerIdle
    /\ SenderIdle

\* ------------------------------------------------------------ the main loop
\* The for loop moves to its next entry, or ends and the while loop restarts.
NextEntry ==
    /\ index' = index + 1
    /\ pc' = IF index + 1 <= Len(entries) THEN "load" ELSE "check_night"

\* while True: if is_nighttime(...): build the six black parts
CheckNight ==
    /\ pc = "check_night"
    /\ \E now \in WallClock :
        /\ night' = is_nighttime(active_start, active_end, now)
        /\ IF is_nighttime(active_start, active_end, now)
           THEN /\ parts' = NightParts
                /\ label' = "Night"
                /\ pc' = "submit"
           ELSE /\ pc' = "select"
                /\ UNCHANGED <<parts, label>>
    /\ cycle' = NewCycle
    /\ UNCHANGED <<config_vars, sources, recent_queue, clock, exc, select_vars,
                   entries, index, futures, sleep_for>>

\* if use_random: ... else: entries = sources
Select ==
    /\ pc = "select"
    /\ IF use_random
       THEN LET assigned  == AssignShares(sources)
                filtered  == Available(assigned, recent_queue)
                exhausted == filtered = <<>>
                queue     == IF exhausted THEN <<>> ELSE recent_queue
                avail     == IF exhausted THEN [i \in DOMAIN assigned |-> i] ELSE filtered
                w         == Weights(assigned, avail)
            IN  /\ sources' = assigned
                /\ available_sources' = avail
                /\ weights' = w
                /\ IF avail = <<>>
                   THEN \* random.choices on an empty population
                        /\ exc' = "IndexError"
                        /\ pc' = "crashed"
                        /\ recent_queue' = queue
                        /\ UNCHANGED <<selected, drawn, entries, index>>
                   ELSE IF SumSeq(w) <= 0
                   THEN \* random.choices: total of weights must be greater than zero
                        /\ exc' = "ValueError"
                        /\ pc' = "crashed"
                        /\ recent_queue' = queue
                        /\ UNCHANGED <<selected, drawn, entries, index>>
                   ELSE \E j \in DOMAIN avail :
                        /\ w[j] > 0
                        /\ selected' = avail[j]
                        /\ recent_queue' =
                               DequeAppend(queue, IndexOf(assigned, assigned[avail[j]]),
                                           no_repeat_window)
                        /\ drawn' = DequeAppend(IF exhausted THEN <<>> ELSE drawn,
                                                avail[j], no_repeat_window)
                        /\ entries' = <<avail[j]>>
                        /\ index' = 1
                        /\ pc' = "load"
                        /\ exc' = exc
       ELSE /\ entries' = [i \in DOMAIN sources |-> i]
            /\ index' = 1
            /\ pc' = IF sources = <<>> THEN "check_night" ELSE "load"
            /\ UNCHANGED <<sources, recent_queue, exc, select_vars>>
    /\ UNCHANGED <<config_vars, clock, night, parts, label, futures, sleep_for, cycle>>

\* image_parts = split_image(...) returns
LoadOk ==
    /\ pc = "load"
    /\ parts' = SplitImage(sources[entries[index]].path)
    /\ label' = "Image"
    /\ pc' = "submit"
    /\ cycle' = [cycle EXCEPT !.attempted = @ + 1, !.loaded = @ + 1]
    /\ UNCHANGED <<config_vars, sources, recent_queue, clock, night, exc, select_vars,
                   entries, index, futures, sleep_for>>

LoadFailBlack ==
    /\ pc = "load"
    /\ parts' = NightParts
    /\ label' = "Image"
    /\ pc' = "submit"
    /\ cycle' = [cycle EXCEPT !.attempted = @ + 1]
    /\ UNCHANGED <<config_vars, sources, recent_queue, clock, night, exc, select_vars,
                   entries, index, futures, sleep_for>>

\* split_image raises: print "Skipping", continue
LoadFail ==
    /\ pc = "load"
    /\ NextEntry
    /\ cycle' = [cycle EXCEPT !.attempted = @ + 1]
    /\ UNCHANGED <<config_vars, sources, recent_queue, clock, night, exc, select_vars,
                   entries, parts, label, futures, sleep_for>>

\* with ThreadPoolExecutor(...): futures = [executor.submit(...) for i, ip in ...]
Submit ==
    /\ pc = "submit"
    /\ futures' = SubmitAll(parts, targets)
    /\ exc' = IF SubmitRaises(parts, targets) THEN "IndexError" ELSE "none"
    /\ pc' = "join"
    /\ cycle' = [cycle EXCEPT !.dispatches = @ + 1]
    /\ UNCHANGED <<config_vars, sources, recent_queue, clock, night, select_vars,
                   entries, index, parts, label, sleep_for>>

\* send_image in a worker thread: connect, sendall, sendall, shutdown
SendOk(i) ==
    /\ i \in DOMAIN futures
    /\ futures[i].state = "running"
    /\ futures' = [futures EXCEPT ![i].state = "sent"]
    /\ UNCHANGED <<config_vars, sources, recent_queue, clock, night, pc, exc,
                   select_vars, entries, index, parts, label, sleep_for, cycle>>

\* send_image in a worker thread: socket.error, printed, the task returns
SendFail(i) ==
    /\ i \in DOMAIN futures
    /\ futures[i].state = "running"
    /\ futures' = [futures EXCEPT ![i].state = "failed"]
    /\ UNCHANGED <<config_vars, sources, recent_queue, clock, night, pc, exc,
                   select_vars, entries, index, parts, label, sleep_for, cycle>>

DisplayTimeAlwaysDefault(entry) == DefaultDisplayTime

\* source_entry.get("display_time", 10) for a dict, 10 for a bare string
DisplayTime(entry) ==
    IF entry.kind = "dict" /\ entry.has_display_time
    THEN entry.display_time
    ELSE DefaultDisplayTime

\* The with block ends: every future is done; a pending exception leaves
\* main(), otherwise time.sleep starts.
Join ==
    /\ pc = "join"
    /\ AllDone(futures)
    /\ IF exc = "KeyboardInterrupt"
       THEN pc' = "stopped" /\ UNCHANGED <<sleep_for, cycle>>
       ELSE IF exc # "none"
       THEN pc' = "crashed" /\ UNCHANGED <<sleep_for, cycle>>
       ELSE /\ pc' = "sleep"
            /\ sleep_for' = IF label = "Night" THEN NightSleep
                            ELSE DisplayTime(sources[entries[index]])
            /\ cycle' = [cycle EXCEPT !.sleeps = @ + 1]
    /\ UNCHANGED <<config_vars, sources, recent_queue, clock, night, exc, select_vars,
                   entries, index, parts, label, futures>>

WakeReload ==
    /\ pc = "sleep"
    /\ IF label = "Night"
       THEN pc' = "check_night" /\ index' = index
       ELSE NextEntry
    /\ futures' = <<>>
    /\ sleep_for' = 0
    /\ use_random' = remote.random
    /\ no_repeat_window' = remote.no_repeat_window
    /\ UNCHANGED <<active_start, active_end, loaded_sources, targets, default_width,
                   default_height, remote, loader_vars, slicer_vars, sender_vars,
                   sources, recent_queue, clock, night, exc,
                   select_vars, entries, parts, label, cycle>>

\* time.sleep returns: continue (night), or the for loop's next entry (day).
\* The futures of the closed with block are not read again.
Wake ==
    /\ pc = "sleep"
    /\ IF label = "Night"
       THEN pc' = "check_night" /\ index' = index
       ELSE NextEntry
    /\ futures' = <<>>
    /\ sleep_for' = 0
    /\ UNCHANGED <<config_vars, sources, recent_queue, clock, night, exc, select_vars,
                   entries, parts, label, cycle>>

\* Ctrl+C: KeyboardInterrupt in the main thread; inside the with block the
\* executor first waits for its tasks.
Interrupt ==
    /\ pc \notin {"crashed", "stopped"}
    /\ exc = "none"
    /\ IF pc = "join"
       THEN exc' = "KeyboardInterrupt" /\ pc' = pc
       ELSE exc' = "KeyboardInterrupt" /\ pc' = "stopped"
    /\ UNCHANGED <<config_vars, sources, recent_queue, clock, night, select_vars,
                   entries, index, parts, label, futures, sleep_for, cycle>>

Next ==
    \/ CheckNight
    \/ Select
    \/ LoadOk
    \/ LoadFail
    \/ Submit
    \/ \E i \in 1..NumParts : SendOk(i)
    \/ \E i \in 1..NumParts : SendFail(i)
    \/ Join
    \/ Wake
    \/ Interrupt

Spec == Init /\ [][Next]_vars

\* ------------------------------------- the loop beside a changing remote
\* The values the remote document can hold for two of the keys main() reads.
RemoteValues == [random : BOOLEAN, no_repeat_window : 0..MaxWindow]

\* The document behind remote_configuration_url is edited while the loop runs.
RemoteEdit ==
    /\ pc \notin {"crashed", "stopped"}
    /\ \E r \in RemoteValues : r # remote /\ remote' = r
    /\ UNCHANGED <<active_start, active_end, loaded_sources, targets, use_random,
                   no_repeat_window, default_width, default_height, loader_vars,
                   slicer_vars, sender_vars, loop_vars>>

\* Configurations small enough to follow the loop for ever.
ReloadConfigs ==
    [sources : SeqsUpTo({StrEntry("a")}, 1), targets : {TargetList(1)},
     random : BOOLEAN, no_repeat_window : 0..MaxWindow,
     size : {<<DefaultWidth, DefaultHeight>>}]

InitReload ==
    /\ active_start = DefaultStart
    /\ active_end = DefaultEnd
    /\ \E config \in ReloadConfigs : Started(config)
    /\ LoaderIdle
    /\ SlicerIdle
    /\ SenderIdle

\* A step of the main thread or of one of its send tasks.
LoopStep ==
    \/ CheckNight
    \/ Select
    \/ LoadOk
    \/ LoadFail
    \/ Submit
    \/ \E i \in 1..NumParts : SendOk(i)
    \/ \E i \in 1..NumParts : SendFail(i)
    \/ Join
    \/ Wake

NextReload ==
    \/ Next
    \/ RemoteEdit

\* The main thread and the send tasks keep running while they can; nothing
\* obliges the remote document to change or the user to interrupt.
SpecReload == InitReload /\ [][NextReload]_vars /\ WF_vars(LoopStep)

\* ------------------------------------------------ the night test on its own
InitNight ==
    /\ active_start \in TimeStrings
    /\ active_end \in TimeStrings
    /\ Started([sources |-> <<>>, targets |-> <<>>, random |-> FALSE,
                no_repeat_window |-> 0, size |-> <<DefaultWidth, DefaultHeight>>])
    /\ LoaderIdle
    /\ SlicerIdle
    /\ SenderIdle

\* One call of is_nighttime at some time of day.
NightTest ==
    /\ pc = "check_night"
    /\ \E now \in ClockTimes :
        /\ clock' = now
        /\ night' = is_nighttime(active_start, active_end, now)
    /\ pc' = "tested"
    /\ UNCHANGED <<config_vars, sources, recent_queue, exc, select_vars,
                   entries, index, parts, label, futures, sleep_for, cycle>>

NextNight == NightTest

SpecNight == InitNight /\ [][NextNight]_vars

\* ------------------------------------------ load_configuration on its own
\* The main loop before main() has started it, with the default settings.
LoopIdle ==
    /\ active_start = DefaultStart
    /\ active_end = DefaultEnd
    /\ Started([sources |-> <<>>, targets |-> <<>>, random |-> FALSE,
                no_repeat_window |-> 0, size |-> <<DefaultWidth, DefaultHeight>>])

InitConfig ==
    /\ LoopIdle
    /\ local_doc \in LocalDocs
    /\ response \in Responses
    /\ merged = EmptyDoc
    /\ loader_pc = "start"
    /\ SlicerIdle
    /\ SenderIdle

\* One call of load_configuration.
LoadConfiguration ==
    /\ loader_pc = "start"
    /\ merged' = load_configuration(local_doc, response).config
    /\ loader_pc' = IF load_configuration(local_doc, response).escaped
                    THEN "raised" ELSE "returned"
    /\ UNCHANGED <<active_start, active_end, loaded_sources, targets, use_random,
                   no_repeat_window, default_width, default_height, remote,
                   local_doc, response, slicer_vars, sender_vars, loop_vars>>

NextConfig == LoadConfiguration

SpecConfig == InitConfig /\ [][NextConfig]_vars

\* ------------------------------------------------- split_image on its own
\* box = (0, i * slice_height, width, (i + 1) * slice_height) for i in
\* range(6), with slice_height = height // 6; the image has been resized to
\* width x height when it is cut.
SliceBoxes(width, height) ==
    [i \in 1..NumParts |->
        [left |-> 0, upper |-> (i - 1) * (height \div NumParts),
         right |-> width, lower |-> i * (height \div NumParts)]]

InitSlice ==
    /\ active_start = DefaultStart
    /\ active_end = DefaultEnd
    /\ \E w \in 1..MaxSliceWidth, h \in 1..MaxSliceHeight :
           Started([sources |-> <<>>, targets |-> <<>>, random |-> FALSE,
                    no_repeat_window |-> 0, size |-> <<w, h>>])
    /\ LoaderIdle
    /\ boxes = <<>>
    /\ SenderIdle

\* The slicing of one call of split_image(source, default_width,
\* default_height, ...) whose image has loaded.
SplitStep ==
    /\ boxes = <<>>
    /\ boxes' = SliceBoxes(default_width, default_height)
    /\ UNCHANGED <<active_start, active_end, loaded_sources, targets, use_random,
                   no_repeat_window, default_width, default_height, remote,
                   loader_vars, sender_vars, loop_vars>>

NextSlice == SplitStep

SpecSlice == InitSlice /\ [][NextSlice]_vars

\* -------------------------------------------------- send_image on its own
\* A character of a command and the bytes str.encode('utf-8') gives it.
Chars == {"s", "e_acute"}

Utf8Char(c) == IF c = "s" THEN <<115>> ELSE <<195, 169>>

\* command.encode('utf-8')
RECURSIVE Utf8(_)
Utf8(str) == IF str = <<>> THEN <<>> ELSE Utf8Char(Head(str)) \o Utf8(Tail(str))

\* b"multiverse:"
Magic == <<109, 117, 108, 116, 105, 118, 101, 114, 115, 101, 58>>

\* struct.pack('!I', n)
PackBE32(n) ==
    <<(n \div 16777216) % 256, (n \div 65536) % 256, (n \div 256) % 256, n % 256>>

\* image_to_raw_pixels: [r, g, b, 255] for every pixel of the image
RECURSIVE RawPixels(_, _)
RawPixels(count, pixel) ==
    IF count = 0 THEN <<>>
    ELSE <<pixel[1], pixel[2], pixel[3], 255>> \o RawPixels(count - 1, pixel)

raw_data(img) == RawPixels(img.width * img.height, img.pixel)

\* header = b"multiverse:" + struct.pack('!I', data_size) + command.encode('utf-8')
Header(img, cmd) == Magic \o PackBE32(Len(raw_data(img))) \o Utf8(cmd)

\* What the with block does on the socket when nothing fails.
SocketOps(img, cmd) ==
    <<[op |-> "connect", data |-> <<>>],
      [op |-> "sendall", data |-> Header(img, cmd)],
      [op |-> "sendall", data |-> raw_data(img)],
      [op |-> "shutdown_wr", data |-> <<>>]>>

Pixels == {<<0, 0, 0>>, <<255, 128, 7>>}

Commands == {str \in SeqsUpTo(Chars, MaxTagLen) : Len(str) >= 3}

InitSend ==
    /\ LoopIdle
    /\ LoaderIdle
    /\ SlicerIdle
    /\ send_img \in [width : 1..MaxFrameWidth, height : 1..MaxFrameHeight,
                      pixel : Pixels]
    /\ command \in Commands
    /\ wire = <<>>
    /\ send_pc = "start"

\* One call of send_image: the command is refused, or the socket calls are
\* made in order until one raises socket.error (done of them succeed).
SendImage ==
    /\ send_pc = "start"
    /\ IF Len(command) # 4
       THEN wire' = <<>>
       ELSE \E done \in 0..Len(SocketOps(send_img, command)) :
               wire' = SubSeq(SocketOps(send_img, command), 1, done)
    /\ send_pc' = "returned"
    /\ UNCHANGED <<active_start, active_end, loaded_sources, targets, use_random,
                   no_repeat_window, default_width, default_height, remote,
                   loader_vars, slicer_vars, send_img, command, loop_vars>>

NextSend == SendImage

SpecSend == InitSend /\ [][NextSend]_vars

\* ==================================================================== claims
SecOfDay(t) == 3600 * t.hour + 60 * t.minute + t.second

StartSec == 3600 * active_start[1] + 60 * active_start[2]

EndSec == 3600 * active_end[1] + 60 * active_end[2]

NowSec == SecOfDay(clock)

\* C1: is_nighttime(start, end) is, when start < end, true exactly when now is
\* outside [start, end); when start >= end, true exactly when not (now >= start
\* or now < end).
C1_NightIsOutsideActiveInterval ==
    pc = "tested" =>
        /\ StartSec < EndSec => (night <=> ~(StartSec <= NowSec /\ NowSec < EndSec))
        /\ StartSec >= EndSec => (night <=> ~(NowSec >= StartSec \/ NowSec < EndSec))

C1_Witness ==
    /\ pc = "tested"
    /\ StartSec > EndSec
    /\ EndSec < NowSec
    /\ NowSec < StartSec
    /\ night

\* C2 as stated: for every pair (start, end), start = end included, the night
\* test is false at now = start and true at now = end.
C2_Original_BoundariesForEveryPair ==
    pc = "tested" =>
        /\ NowSec = StartSec => ~night
        /\ NowSec = EndSec => night

\* C2 amended: for every pair with start # end (start > end included) the night
\* test is false at now = start and true at now = end; when start = end it is
\* false at that time.
C2_BoundariesForDistinctStartEnd ==
    pc = "tested" =>
        /\ (StartSec # EndSec /\ NowSec = StartSec) => ~night
        /\ (StartSec # EndSec /\ NowSec = EndSec) => night
        /\ (StartSec = EndSec /\ NowSec = StartSec) => ~night

C2_Witness ==
    /\ pc = "tested"
    /\ StartSec > EndSec
    /\ NowSec = EndSec
    /\ night

PairwiseDistinct(s) == \A i, j \in DOMAIN s : i # j => s[i] # s[j]

\* C3: in random mode with 0 < no_repeat_window = k < number of sources, no
\* source position is drawn twice within k consecutive selections (drawn holds
\* the positions of the last k draws since the last exhaustion reset).
C3_NoRepeatWithinWindow ==
    (use_random /\ 0 < no_repeat_window /\ no_repeat_window < Len(sources))
        => PairwiseDistinct(drawn)

\* C4: after every random selection the window is the window used for the draw
\* (cleared on exhaustion) with the position of the drawn entry appended and
\* trimmed to the last no_repeat_window positions.
C4_WindowRecordsDrawnPosition ==
    [][(pc = "select" /\ pc' = "load" /\ use_random) =>
          LET used == IF \A p \in DOMAIN sources : p \in Range(recent_queue)
                      THEN <<>> ELSE recent_queue
              kept == Append(used, selected')
          IN  recent_queue' =
                  SubSeq(kept, Max2(1, Len(kept) - no_repeat_window + 1), Len(kept))]_vars

\* The loaded entry at position p declares shares.
Declared(p) == loaded_sources[p].kind = "dict" /\ loaded_sources[p].has_shares

DeclaredPositions == {p \in DOMAIN loaded_sources : Declared(p)}

RECURSIVE TotalOver(_)
TotalOver(ps) ==
    IF ps = {} THEN 0
    ELSE LET p == CHOOSE q \in ps : TRUE
         IN  loaded_sources[p].shares + TotalOver(ps \ {p})

ClaimedDefault ==
    IF DeclaredPositions = {} THEN 1
    ELSE LET q == TotalOver(DeclaredPositions) \div Len(loaded_sources)
         IN  IF q >= 1 THEN q ELSE 1

\* C5 as stated: the weight of a candidate is its declared shares, and for
\* every entry without them, dict or bare string, the default.
C5_Original_DefaultForEveryEntry ==
    \A j \in DOMAIN weights :
        weights[j] = IF Declared(available_sources[j])
                     THEN loaded_sources[available_sources[j]].shares
                     ELSE ClaimedDefault

\* C5 amended: the weight of a candidate is its declared shares; for a dict
\* without shares it is max(totalDeclaredShares // sourceCount, 1) when some
\* entry of the full list declares shares and 1 when none does; for a bare
\* string it is always 1; the same in every cycle.
C5_WeightsFromFullList ==
    \A j \in DOMAIN weights :
        weights[j] = IF Declared(available_sources[j])
                     THEN loaded_sources[available_sources[j]].shares
                     ELSE IF loaded_sources[available_sources[j]].kind = "dict"
                     THEN ClaimedDefault
                     ELSE 1

C5_Witness ==
    /\ pc = "load"
    /\ Len(recent_queue) >= 1
    /\ Len(available_sources) < Len(sources)
    /\ \E j \in DOMAIN weights :
        /\ loaded_sources[available_sources[j]].kind = "dict"
        /\ ~Declared(available_sources[j])
        /\ weights[j] >= 2

\* C6: a dispatch sends part i to target i for exactly the i < min(6, N), and
\* raises no error whatever the number N of targets.
C6_DispatchTruncates ==
    pc = "join" =>
        /\ exc # "IndexError"
        /\ Len(futures) = Min2(NumParts, Len(targets))
        /\ \A i \in DOMAIN futures :
               futures[i].part = parts[i] /\ futures[i].host = targets[i]

\* C7: a send task is running only while the main thread is in the with block
\* of its dispatch: none is running when the sleep begins, during the sleep or
\* when the next cycle starts.
C7_JoinBarrier ==
    (\E i \in DOMAIN futures : futures[i].state = "running") => pc = "join"

C7_Witness ==
    /\ pc = "sleep"
    /\ \E i \in DOMAIN futures : futures[i].state = "failed"
    /\ \E i \in DOMAIN futures : futures[i].state = "sent"

\* C8: whatever subset of the sends of a dispatch fails, every other target of
\* the dispatch has been sent its part when the dispatch ends, and the cycle
\* goes on to its sleep.
C8_FaultIsolation ==
    [][(pc = "join" /\ pc' # "join" /\ exc # "KeyboardInterrupt") =>
          /\ pc' = "sleep"
          /\ \A i \in DOMAIN futures :
                 futures[i].state # "failed" =>
                     futures[i].state = "sent" /\ futures[i].part = parts[i]]_vars

\* C9: the main loop never reaches a crashed state.
C9_NeverCrashes == pc # "crashed"

C16_ExhaustionReset ==
    [][(pc = "select" /\ pc' = "load" /\ use_random) =>
          IF \A p \in DOMAIN sources : p \in Range(recent_queue)
          THEN /\ available_sources' = [p \in DOMAIN sources |-> p]
               /\ recent_queue' = <<selected'>>
          ELSE /\ selected' \notin Range(recent_queue)
               /\ Len(recent_queue') >= Len(recent_queue)
               /\ \A i \in 2..Len(recent_queue) :
                      recent_queue[i] \in Range(recent_queue')]_vars

C16_Witness ==
    /\ pc = "load"
    /\ use_random
    /\ label = "Image"
    /\ Len(sources) = 2
    /\ no_repeat_window = 2
    /\ available_sources = <<1, 2>>
    /\ recent_queue = <<selected>>

\* C17: the loop never returns to the night test without a dispatch and a
\* sleep since the previous night test.
C17_EveryCycleDispatchesAndSleeps ==
    [][(pc # "check_night" /\ pc' = "check_night") =>
          (cycle'.dispatches >= 1 /\ cycle'.sleeps >= 1)]_vars

ClaimedBlackFrame ==
    [image |-> "black", band |-> 0,
     width |-> default_width, height |-> default_height \div 6]

\* C18: in a cycle whose night test is true every dispatched frame is the same
\* black frame of size width x (height // 6), the sleep is 60 seconds, no
\* source is loaded, and the window and the source list are left unchanged.
C18_NightCycle ==
    /\ [](night =>
            /\ pc \in {"submit", "join", "sleep", "check_night", "crashed", "stopped"}
            /\ cycle.attempted = 0
            /\ \A i \in DOMAIN futures : futures[i].part = ClaimedBlackFrame
            /\ pc = "sleep" => sleep_for = 60)
    /\ [][night' => (recent_queue' = recent_queue /\ sources' = sources)]_vars

C18_Witness ==
    /\ night
    /\ pc = "sleep"
    /\ sleep_for = 60
    /\ Len(futures) >= 1
    /\ recent_queue # <<>>
    /\ \E p \in DOMAIN sources : sources[p].has_shares

ClaimedDisplayTime(p) ==
    IF loaded_sources[p].kind = "dict" /\ loaded_sources[p].has_display_time
    THEN loaded_sources[p].display_time
    ELSE 10

\* C19: in non-random mode a day cycle attempts the entries of the source
\* list in list order, none left out; an entry that loads is dispatched and
\* followed by a sleep of its own display_time (10 without one), an entry
\* that fails is skipped, and the window is never modified.
C19_SequentialMode ==
    /\ [](~use_random =>
            /\ recent_queue = <<>>
            /\ (~night /\ pc \in {"load", "submit", "join", "sleep"}) =>
                  /\ entries = [p \in DOMAIN loaded_sources |-> p]
                  /\ index \in DOMAIN entries
                  /\ cycle.attempted = IF pc = "load" THEN index - 1 ELSE index
                  /\ pc # "load" => \A i \in DOMAIN parts :
                                        parts[i].image = loaded_sources[index].path
                  /\ pc = "sleep" => sleep_for = ClaimedDisplayTime(index))
    /\ [][(~use_random /\ ~night /\ pc # "check_night" /\ pc' = "check_night") =>
             /\ cycle'.attempted = Len(loaded_sources)
             /\ cycle'.dispatches = cycle'.loaded
             /\ cycle'.sleeps = cycle'.loaded]_vars

C19_Witness ==
    /\ ~use_random
    /\ ~night
    /\ pc = "sleep"
    /\ sleep_for = 3
    /\ index = 2
    /\ cycle.attempted = 2
    /\ cycle.loaded = 1

\* C20: every source entry has the fields and values it had when the
\* configuration was loaded.
C20_SourcesNeverModified == sources = loaded_sources

\* The values of the two keys the loop is using.
InUse == [random |-> use_random, no_repeat_window |-> no_repeat_window]

ClaimedWhitelist ==
    {"active_start", "active_end", "sources", "random", "no_repeat_window",
     "width", "height", "crop", "crop_origin", "system_logo"}

CodeWhitelist ==
    {"active_start", "active_end", "sources", "random", "no_repeat_window",
     "width", "height", "crop", "crop_origin"}

\* The remote document was fetched and is a mapping.
FetchedMapping ==
    /\ loader_pc # "start"
    /\ "remote_configuration_url" \in DOMAIN local_doc
    /\ response.status = "ok"
    /\ response.body.kind = "mapping"

\* The merged configuration takes the keys of allowed from the remote
\* document and everything else from the local one.
MergedOver(allowed) ==
    /\ loader_pc = "returned"
    /\ DOMAIN merged = DOMAIN local_doc \cup (response.body.keys \cap allowed)
    /\ \A k \in DOMAIN merged :
           merged[k] = IF k \in response.body.keys \cap allowed
                       THEN <<"remote", k>> ELSE <<"local", k>>

C13_FailedFetchKeepsLocal ==
    (/\ loader_pc # "start"
     /\ \/ response.status # "ok"
        \/ response.body.kind # "mapping")
        => (loader_pc = "returned" /\ merged = local_doc)

C13_Witness ==
    /\ loader_pc = "returned"
    /\ "remote_configuration_url" \in DOMAIN local_doc
    /\ response.status = "ok"
    /\ response.body.kind = "list"
    /\ "crop_origin" \in response.body.keys
    /\ merged = local_doc

\* Row y of the resized image is inside box b.
RowIn(y, b) == b.upper <= y /\ y < b.lower

\* C14: the six slices are the bands [i*h, (i+1)*h) with h = height / 6
\* exactly, full width, band 0 topmost, and every row 0..height-1 of the
\* resized image is in exactly one of them.
C14_SlicesCoverEveryRow ==
    boxes # <<>> =>
        /\ Len(boxes) = 6
        /\ \E h \in 0..default_height :
               /\ 6 * h = default_height
               /\ \A i \in 0..5 :
                      boxes[i + 1] = [left |-> 0, upper |-> i * h,
                                      right |-> default_width, lower |-> (i + 1) * h]
        /\ \A y \in 0..(default_height - 1) :
               Cardinality({i \in 1..6 : RowIn(y, boxes[i])}) = 1

\* A run of send_image in which no socket call failed.
SentWhole == send_pc = "returned" /\ Len(command) = 4 /\ Len(wire) = 4

\* Every fourth byte of a payload is 255.
AlphaOpaque(payload) ==
    \A j \in 1..Len(payload) : j % 4 = 0 => payload[j] = 255

\* C15: a send of a w x h frame with a 4-character tag opens one
\* connection, writes "multiverse:", the 4-byte big-endian length w*h*4, the
\* 4-byte tag, then w*h*4 payload bytes with every fourth byte 255, then
\* shuts down the write side; a tag whose length is not 4 opens no
\* connection and writes nothing.
C15_WireFormat ==
    /\ SentWhole =>
           /\ Cardinality({j \in 1..Len(wire) : wire[j].op = "connect"}) = 1
           /\ wire[1].op = "connect"
           /\ wire[2].op = "sendall"
           /\ Len(wire[2].data) = 11 + 4 + 4
           /\ SubSeq(wire[2].data, 1, 11) = Magic
           /\ SubSeq(wire[2].data, 12, 15)
                  = PackBE32(send_img.width * send_img.height * 4)
           /\ wire[3].op = "sendall"
           /\ Len(wire[3].data) = send_img.width * send_img.height * 4
           /\ AlphaOpaque(wire[3].data)
           /\ wire[4].op = "shutdown_wr"
    /\ (send_pc = "returned" /\ Len(command) # 4) => wire = <<>>

====
